---- MODULE Spec2Model ----
(***************************************************************************)
(* Model of the resume checker (src/app.py): the text helpers, the resume  *)
(* parser, the scorer evaluate_resume, the two SQLite tables and the       *)
(* Streamlit script run with its Evaluate handler and history query.       *)
(*                                                                         *)
(* Strings are sequences of one-character strings, so that substring       *)
(* tests, whitespace splitting and regular-expression scans work on        *)
(* characters as the Python code does.  A character outside ASCII is       *)
(* written as its code point ("U+2705").  Floats are exact rationals       *)
(* [num, den]; the cosine similarity is an integer number of 1/SemScale.   *)
(***************************************************************************)
EXTENDS FiniteSets, Integers, Sequences, TLC

VARIABLES
  job_description,  \* rows of table job_description, in insertion order
  evaluations,      \* rows of table evaluations, in insertion order
  uploads,          \* the uploads/ directory: file name -> document
  page,             \* what the last script run left on the page
  embedder,         \* the loaded model: its cosine for two different texts
  args,             \* the arguments of a direct call of a function
  ret               \* what that call returned or raised

vars == <<job_description, evaluations, uploads, page, embedder, args, ret>>

-----------------------------------------------------------------------------
(* Bounds of the model *)

MaxWords == 2
MaxSegments == 3
MaxRows == 2

-----------------------------------------------------------------------------
(* Representation of floats *)

\* the cosine similarity is counted in units of 1/SemScale
SemScale == 100000
\* a weight is counted in units of 1/WeightScale
WeightScale == 10
\* weight_keywords=0.5, weight_semantics=0.5
DefaultWeight == 5
\* all-MiniLM-L6-v2 produces vectors of 384 floats
EmbDim == 384

Max(a, b) == IF a >= b THEN a ELSE b
Min(a, b) == IF a <= b THEN a ELSE b

\* a rational compared with an integer, a >= n
Ge(a, n) == a.num >= n * a.den
Le(a, n) == a.num <= n * a.den

-----------------------------------------------------------------------------
(* Python strings *)

\* the characters \s matches and str.split() / str.strip() drop
Whitespace == {" ", "\n", "\t"}

UpperChars == <<"A","B","C","D","E","F","G","H","I","J","K","L","M","N","O","P","Q","R","S","T","U","V","W","X","Y","Z">>
LowerChars == <<"a","b","c","d","e","f","g","h","i","j","k","l","m","n","o","p","q","r","s","t","u","v","w","x","y","z">>
DigitChars == <<"0","1","2","3","4","5","6","7","8","9">>

ToLower(c) ==
  IF \E i \in 1..Len(UpperChars) : UpperChars[i] = c
  THEN LowerChars[CHOOSE i \in 1..Len(UpperChars) : UpperChars[i] = c]
  ELSE c

\* str.lower()
lower(text) ==
  IF text = <<>> THEN <<>> ELSE [i \in 1..Len(text) |-> ToLower(text[i])]

\* `s in text` on strings
Contains(s, text) ==
  \E i \in 0..(Len(text) - Len(s)) : SubSeq(text, i + 1, i + Len(s)) = s

\* text.startswith(s, i) with i counted from 1
StartsWithAt(text, s, i) ==
  /\ i + Len(s) - 1 <= Len(text)
  /\ SubSeq(text, i, i + Len(s) - 1) = s

\* text.endswith(s)
EndsWith(text, s) ==
  /\ Len(s) <= Len(text)
  /\ SubSeq(text, Len(text) - Len(s) + 1, Len(text)) = s

RECURSIVE Join(_, _)
\* sep.join(parts)
Join(sep, parts) ==
  IF parts = <<>> THEN <<>>
  ELSE IF Len(parts) = 1 THEN parts[1]
  ELSE parts[1] \o sep \o Join(sep, Tail(parts))

\* the positions where a maximal run of non-whitespace characters starts
WordStarts(text) ==
  {i \in 1..Len(text) :
     text[i] \notin Whitespace /\ (i = 1 \/ text[i - 1] \in Whitespace)}

\* the position where the run that starts at i ends
WordEnd(text, i) ==
  CHOOSE j \in i..Len(text) :
    /\ \A k \in i..j : text[k] \notin Whitespace
    /\ j = Len(text) \/ text[j + 1] \in Whitespace

\* the n-th smallest member of a set of numbers
Nth(S, n) == CHOOSE i \in S : Cardinality({j \in S : j < i}) = n - 1

\* text.split(): the maximal runs of non-whitespace characters
split(text) ==
  LET starts == WordStarts(text)
  IN IF starts = {} THEN <<>>
     ELSE [n \in 1..Cardinality(starts) |->
             SubSeq(text, Nth(starts, n), WordEnd(text, Nth(starts, n)))]

\* set(list)
ToSet(seq) == {seq[i] : i \in 1..Len(seq)}

\* re.sub(r'\s+', ' ', text): every maximal whitespace run becomes one space
SubWhitespace(text) ==
  LET kept == SelectSeq([i \in 1..Len(text) |-> i],
                        LAMBDA i : \/ text[i] \notin Whitespace
                                   \/ i = 1
                                   \/ text[i - 1] \notin Whitespace)
  IN IF text = <<>> THEN <<>>
     ELSE [n \in 1..Len(kept) |->
             IF text[kept[n]] \in Whitespace THEN " " ELSE text[kept[n]]]

\* text.strip()
strip(text) ==
  LET solid == {i \in 1..Len(text) : text[i] \notin Whitespace}
  IN IF solid = {} THEN <<>>
     ELSE SubSeq(text, CHOOSE i \in solid : \A j \in solid : i <= j,
                       CHOOSE i \in solid : \A j \in solid : i >= j)

\* re.sub(r'\s+', ' ', text).strip().lower()
clean_text(text) == lower(strip(SubWhitespace(text)))

RECURSIVE Digits(_)
\* the decimal digits of n >= 0
Digits(n) ==
  IF n < 10 THEN <<DigitChars[n + 1]>>
  ELSE Digits(n \div 10) \o <<DigitChars[(n % 10) + 1]>>

\* f"{x:.1f}": x rounded to one decimal, ties to the even digit, sign kept
\* (the rounding of the exact value; a float off a tie by its last bit may
\* round the other way)
Format1f(x) ==
  LET a == (IF x.num < 0 THEN 0 - x.num ELSE x.num) * 10
      t == a \div x.den
      r == a % x.den
      tenths == IF 2 * r > x.den \/ (2 * r = x.den /\ t % 2 = 1) THEN t + 1 ELSE t
  IN (IF x.num < 0 THEN <<"-">> ELSE <<>>)
       \o Digits(tenths \div 10) \o <<".">> \o <<DigitChars[(tenths % 10) + 1]>>

-----------------------------------------------------------------------------
(* Skills dictionary *)

SKILLS_LIST == <<
  <<"p","y","t","h","o","n">>, <<"j","a","v","a">>, <<"s","q","l">>, <<"m","l">>, <<"m","a","c","h","i","n","e"," ","l","e","a","r","n","i","n","g">>,
  <<"c","l","o","u","d">>, <<"d","o","c","k","e","r">>, <<"k","u","b","e","r","n","e","t","e","s">>, <<"e","x","c","e","l">>, <<"c","+","+">>,
  <<"t","e","n","s","o","r","f","l","o","w">>, <<"p","y","t","o","r","c","h">>, <<"a","w","s">>, <<"a","z","u","r","e">>, <<"l","i","n","u","x">>, <<"g","i","t">> >>

-----------------------------------------------------------------------------
(* Python values: None, a list, a numpy array with its shape *)

None == [kind |-> "None"]
PyList(items) == [kind |-> "list", items |-> items]

\* embedder.encode(texts): one row of EmbDim floats per text
encode(texts) ==
  [kind |-> "ndarray", shape |-> <<Len(texts), EmbDim>>, rows |-> texts]

\* v[0] of a list or of an array of two or more dimensions
Index0(v) ==
  IF v.kind = "list" THEN v.items[1]
  ELSE [kind |-> "ndarray", shape |-> Tail(v.shape), rows |-> <<v.rows[1]>>]

RECURSIVE ConcatRows(_)
ConcatRows(items) ==
  IF items = <<>> THEN <<>> ELSE Head(items).rows \o ConcatRows(Tail(items))

\* np.asarray of a list of equally shaped arrays: one more dimension in front
asarray(v) ==
  IF v.kind = "ndarray" THEN v
  ELSE [kind |-> "ndarray",
        shape |-> <<Len(v.items)>> \o v.items[1].shape,
        rows |-> ConcatRows(v.items)]

\* arr.tobytes(): the floats without the shape
tobytes(arr) == arr.rows

\* the cosine of the vectors of two texts, in units of 1/SemScale: 1 for one
\* and the same vector, the model's answer otherwise
Cosine(u, v) == IF u = v THEN SemScale ELSE embedder

\* sklearn's cosine_similarity(X, Y): check_pairwise_arrays accepts only
\* two-dimensional X and Y with the same number of columns
cosine_similarity(X, Y) ==
  LET ax == asarray(X)
      ay == asarray(Y)
  IN IF Len(ax.shape) # 2 \/ Len(ay.shape) # 2
     THEN [exc |-> "ValueError"]
     ELSE IF ax.shape[2] # ay.shape[2]
     THEN [exc |-> "ValueError"]
     ELSE [exc |-> "none",
           value |-> [i \in 1..ax.shape[1] |->
                       [j \in 1..ay.shape[1] |-> Cosine(ax.rows[i], ay.rows[j])]]]

-----------------------------------------------------------------------------
(* Scorer *)

\* KeywordScore with the resume's words as the denominator
KeywordScore_ByResume(resume_text, jd_text) ==
  LET resume_words == ToSet(split(resume_text))
      jd_words == ToSet(split(jd_text))
  IN [num |-> Cardinality(resume_words \cap jd_words),
      den |-> Max(Cardinality(resume_words), 1)]

\* len(resume_words & jd_words)/max(len(jd_words),1) as [num, den]
KeywordScore(resume_text, jd_text) ==
  LET resume_words == ToSet(split(resume_text))
      jd_words == ToSet(split(jd_text))
  IN [num |-> Cardinality(resume_words \cap jd_words),
      den |-> Max(Cardinality(jd_words), 1)]

\* FinalScore with the weights left out: (keyword_score + semantic_score)*100
FinalScore_Unweighted(keyword_score, semantic_score, weight_keywords, weight_semantics) ==
  [num |-> keyword_score.num * WeightScale * SemScale
             + semantic_score * WeightScale * keyword_score.den,
   den |-> keyword_score.den * ((SemScale * WeightScale) \div 100)]

\* (keyword_score*weight_keywords + semantic_score*weight_semantics)*100
FinalScore(keyword_score, semantic_score, weight_keywords, weight_semantics) ==
  [num |-> keyword_score.num * weight_keywords * SemScale
             + semantic_score * weight_semantics * keyword_score.den,
   den |-> keyword_score.den * ((SemScale * WeightScale) \div 100)]

\* MissingSkills with the resume matched word by word, not by substring
MissingSkills_ByWord(resume_text, jd_text) ==
  SelectSeq(SKILLS_LIST,
            LAMBDA s : Contains(s, jd_text) /\ s \notin ToSet(split(resume_text)))

\* [s for s in SKILLS_LIST if s in jd_text and s not in resume_text]
MissingSkills(resume_text, jd_text) ==
  SelectSeq(SKILLS_LIST, LAMBDA s : Contains(s, jd_text) /\ ~Contains(s, resume_text))

\* Verdict with the lower bound of each tier left out of the tier
Verdict_Strict(final_score) ==
  IF ~Le(final_score, 75) THEN "High"
  ELSE IF ~Le(final_score, 50) THEN "Medium"
  ELSE "Low"

Verdict(final_score) ==
  IF Ge(final_score, 75) THEN "High"
  ELSE IF Ge(final_score, 50) THEN "Medium"
  ELSE "Low"

TierMessage(verdict) ==
  IF verdict = "High" THEN <<"U+2705"," ","G","r","e","a","t"," ","m","a","t","c","h","!">>
  ELSE IF verdict = "Medium" THEN <<"U+26A0","U+FE0F"," ","P","a","r","t","i","a","l"," ","m","a","t","c","h",".">>
  ELSE <<"U+274C"," ","L","o","w"," ","a","l","i","g","n","m","e","n","t",".">>

\* FirstTen without the truncation
FirstTen_All(missing_skills) == missing_skills

\* missing_skills[:10]
FirstTen(missing_skills) == SubSeq(missing_skills, 1, Min(Len(missing_skills), 10))

Feedback(final_score, verdict, missing_skills) ==
  <<"S","c","o","r","e",":"," ">> \o Format1f(final_score) \o <<"."," ">> \o TierMessage(verdict)
    \o (IF missing_skills # <<>>
        THEN <<" ","M","i","s","s","i","n","g",":"," ">> \o Join(<<","," ">>, FirstTen(missing_skills)) \o <<".">>
        ELSE <<>>)

evaluate_resume(resume_text, jd_text, jd_emb, weight_keywords, weight_semantics) ==
  LET keyword_score == KeywordScore(resume_text, jd_text)
      jd_emb1 == IF jd_emb.kind = "None" THEN encode(<<jd_text>>) ELSE jd_emb
      resume_emb == encode(<<resume_text>>)
      sim == cosine_similarity(PyList(<<Index0(resume_emb)>>),
                               PyList(<<Index0(jd_emb1)>>))
  IN IF sim.exc # "none"
     THEN [exc |-> sim.exc]
     ELSE LET semantic_score == sim.value[1][1]
              final_score == FinalScore(keyword_score, semantic_score,
                                        weight_keywords, weight_semantics)
              missing_skills == MissingSkills(resume_text, jd_text)
              verdict == Verdict(final_score)
          IN [exc |-> "none",
              keyword_score |-> keyword_score,
              semantic_score |-> semantic_score,
              score |-> final_score,
              verdict |-> verdict,
              missing_skills |-> missing_skills,
              feedback |-> Feedback(final_score, verdict, missing_skills)]

-----------------------------------------------------------------------------
(* Text extraction and the resume parser *)

\* A document is [format, parts]: the format its bytes really have and the
\* texts of its pages (pdf) or paragraphs (docx).  fs maps a path to the
\* document written there.

\* os.path.join("uploads", name)
UploadPath(name) == <<"u","p","l","o","a","d","s","/">> \o name

extract_text(fs, file_path) ==
  IF EndsWith(lower(file_path), <<".","p","d","f">>)
  THEN IF fs[file_path].format # "pdf"
       THEN [exc |-> "DocumentParseError"]
       ELSE [exc |-> "none", value |-> Join(<<" ">>, fs[file_path].parts)]
  ELSE IF EndsWith(lower(file_path), <<".","d","o","c","x">>)
  THEN IF fs[file_path].format # "docx"
       THEN [exc |-> "DocumentParseError"]
       ELSE [exc |-> "none", value |-> Join(<<" ">>, fs[file_path].parts)]
  ELSE [exc |-> "none", value |-> <<>>]

EDUCATION_TRIGGERS ==
  << <<"e","d","u","c","a","t","i","o","n">>, <<"b","a","c","h","e","l","o","r">>, <<"m","a","s","t","e","r">>, <<"d","e","g","r","e","e">>, <<"u","n","i","v","e","r","s","i","t","y">>,
     <<"c","o","l","l","e","g","e">> >>
EXPERIENCE_TRIGGERS ==
  << <<"e","x","p","e","r","i","e","n","c","e">>, <<"w","o","r","k","e","d">>, <<"i","n","t","e","r","n">>, <<"p","r","o","j","e","c","t">>, <<"d","e","v","e","l","o","p","e","d">> >>
PROJECTS_TRIGGERS ==
  << <<"p","r","o","j","e","c","t">>, <<"b","u","i","l","t">>, <<"d","e","v","e","l","o","p","e","d">>, <<"c","r","e","a","t","e","d">> >>

\* the last position `.*` reaches when it starts at position i: `.` does not
\* match a newline
LineEnd(text, i) ==
  LET newlines == {j \in i..Len(text) : text[j] = "\n"}
  IN IF newlines = {} THEN Len(text)
     ELSE (CHOOSE j \in newlines : \A k \in newlines : j <= k) - 1

\* the alternatives of (t1|t2|...) that match at position i
Alternatives(triggers, text, i) ==
  {k \in 1..Len(triggers) : StartsWithAt(text, triggers[k], i)}

RECURSIVE ScanFrom(_, _, _)
\* the non-overlapping matches of (t1|t2|...).* in text, leftmost first, from
\* position i on: for each, the text of the group and the text of the match
ScanFrom(triggers, text, i) ==
  LET starts == {j \in i..Len(text) : Alternatives(triggers, text, j) # {}}
  IN IF starts = {} THEN <<>>
     ELSE LET first == CHOOSE j \in starts : \A h \in starts : j <= h
              alts == Alternatives(triggers, text, first)
              k == CHOOSE h \in alts : \A g \in alts : h <= g
              last == LineEnd(text, first + Len(triggers[k]))
          IN <<[group |-> triggers[k], match |-> SubSeq(text, first, last)]>>
               \o ScanFrom(triggers, text, last + 1)

\* re.findall(r"(t1|t2|...).*", text): with one group in the pattern, findall
\* returns the text of the group of each match
findall(triggers, text) ==
  LET ms == ScanFrom(triggers, text, 1)
  IN IF ms = <<>> THEN <<>> ELSE [i \in 1..Len(ms) |-> ms[i].group]

parse_resume(fs, file_path) ==
  LET extracted == extract_text(fs, file_path)
  IN IF extracted.exc # "none"
     THEN [exc |-> extracted.exc]
     ELSE LET text == clean_text(extracted.value)
              skills == SelectSeq(SKILLS_LIST, LAMBDA s : Contains(s, text))
          IN [exc |-> "none",
              Education |-> Join(<<" ">>, findall(EDUCATION_TRIGGERS, text)),
              Skills |-> Join(<<" ">>, skills),
              Experience |-> Join(<<" ">>, findall(EXPERIENCE_TRIGGERS, text)),
              Projects |-> Join(<<" ">>, findall(PROJECTS_TRIGGERS, text)),
              FullText |-> text]

-----------------------------------------------------------------------------
(* The two tables *)

\* the largest id of a table
MaxId(table) ==
  IF table = <<>> THEN 0
  ELSE CHOOSE m \in {table[i].id : i \in 1..Len(table)} :
         \A i \in 1..Len(table) : table[i].id <= m

\* Insert executed twice
Insert_Twice(table, row) ==
  Append(Append(table, [id |-> MaxId(table) + 1] @@ row),
         [id |-> MaxId(table) + 2] @@ row)

\* INSERT INTO table (columns) VALUES (row) and commit: id INTEGER PRIMARY KEY
\* AUTOINCREMENT gives the row the id after the largest one
Insert(table, row) == Append(table, [id |-> MaxId(table) + 1] @@ row)

\* SELECT resume_name,score,verdict,feedback FROM evaluations ORDER BY id DESC
SelectHistory(table) ==
  IF table = <<>> THEN <<>>
  ELSE [n \in 1..Len(table) |->
          LET r == CHOOSE r \in ToSet(table) :
                     Cardinality({q \in ToSet(table) : q.id > r.id}) = n - 1
          IN [resume_name |-> r.resume_name, score |-> r.score,
              verdict |-> r.verdict, feedback |-> r.feedback]]

\* json.dumps of a list of strings
json_dumps(strings) ==
  <<"[">>
    \o Join(<<","," ">>, [i \in 1..Len(strings) |-> <<"\"">> \o strings[i] \o <<"\"">>])
    \o <<"]">>

\* round(x, 2): the nearest number of hundredths, ties to the even one
Round2(x) ==
  LET a == (IF x.num < 0 THEN 0 - x.num ELSE x.num) * 100
      t == a \div x.den
      r == a % x.den
      h == IF 2 * r > x.den \/ (2 * r = x.den /\ t % 2 = 1) THEN t + 1 ELSE t
  IN [num |-> IF x.num < 0 THEN 0 - h ELSE h, den |-> 100]

-----------------------------------------------------------------------------
(* The Streamlit script *)

\* the numbers of the bar chart of visualize_resume; the word cloud image is
\* display only and is left out
visualize_resume(resume_json, missing_skills) ==
  LET matched_skills ==
        SelectSeq(split(resume_json.Skills),
                  LAMBDA s : \A i \in 1..Len(missing_skills) : missing_skills[i] # s)
  IN [Matched |-> Len(matched_skills), Missing |-> Len(missing_skills)]

\* open(path, "wb").write(resume_file.read())
WriteFile(fs, path, doc) ==
  [p \in DOMAIN fs \cup {path} |-> IF p = path THEN doc ELSE fs[p]]

\* an exception leaves the handler: what is committed and written stays
Raised(exc, jd_table, ev_table, fs) ==
  [exc |-> exc, job_description |-> jd_table, evaluations |-> ev_table,
   uploads |-> fs]

\* the handler after evaluate_resume returned or raised r: the INSERT into
\* evaluations, the results and the charts
StoreAndShow(jd_table, ev_table, fs, resume_file, resume_json, r, fault) ==
  IF r.exc # "none" THEN Raised(r.exc, jd_table, ev_table, fs)
  ELSE IF fault = "eval_insert" THEN Raised("sqlite3.Error", jd_table, ev_table, fs)
  ELSE [exc |-> "none",
        job_description |-> jd_table,
        evaluations |->
          Insert(ev_table,
                 [resume_name |-> resume_file.name, score |-> r.score,
                  verdict |-> r.verdict,
                  missing_skills |-> json_dumps(r.missing_skills),
                  feedback |-> r.feedback]),
        uploads |-> fs,
        results |-> [Resume |-> resume_file.name, Score |-> Round2(r.score),
                     Verdict |-> r.verdict, MissingSkills |-> r.missing_skills,
                     Feedback |-> r.feedback],
        chart |-> visualize_resume(resume_json, r.missing_skills)]

\* the handler after parse_resume returned or raised resume_json: the
\* embedding of the job description, the INSERT into job_description and the
\* call of evaluate_resume with jd_emb=[jd_emb]
SaveJdAndEvaluate(db, fs, resume_file, jd_text, fault, resume_json) ==
  IF resume_json.exc # "none"
    THEN Raised(resume_json.exc, db.job_description, db.evaluations, fs)
  ELSE IF fault = "embedding"
    THEN Raised("EmbeddingUnavailableError", db.job_description, db.evaluations, fs)
  ELSE IF fault = "jd_insert"
    THEN Raised("sqlite3.Error", db.job_description, db.evaluations, fs)
  ELSE StoreAndShow(
         Insert(db.job_description,
                [jd_text |-> jd_text, jd_emb |-> tobytes(encode(<<jd_text>>))]),
         db.evaluations, fs, resume_file, resume_json,
         evaluate_resume(resume_json.FullText, jd_text,
                         PyList(<<encode(<<jd_text>>)>>),
                         DefaultWeight, DefaultWeight),
         fault)

\* The body of `if st.button("Evaluate") and resume_file and jd_text:` up to
\* the exception that ends it or to its end.  fault names the call of a
\* collaborator that fails in this run: the embedding model or an INSERT.
EvaluateHandler(db, fs, resume_file, jd_text, fault) ==
  SaveJdAndEvaluate(
    db, WriteFile(fs, UploadPath(resume_file.name), resume_file.doc),
    resume_file, jd_text, fault,
    parse_resume(WriteFile(fs, UploadPath(resume_file.name), resume_file.doc),
                 UploadPath(resume_file.name)))

\* what the page shows after a run that ended with h
Rendered(request, h) ==
  IF h.exc # "none" THEN [request |-> request, exc |-> h.exc]
  ELSE IF request.accepted
  THEN [request |-> request, exc |-> "none", results |-> h.results,
        chart |-> h.chart, rows |-> SelectHistory(h.evaluations)]
  ELSE [request |-> request, exc |-> "none", rows |-> SelectHistory(h.evaluations)]

\* One run of the script from top to bottom: the handler when Evaluate was
\* pressed with a file and a job description, then the previous evaluations.
\* An exception ends the run: Streamlit shows it and renders nothing below.
ScriptRun(button, resume_file, jd_text, fault) ==
  LET accepted == button /\ resume_file.kind # "None" /\ jd_text # <<>>
      db == [job_description |-> job_description, evaluations |-> evaluations]
      request == IF accepted
                 THEN [accepted |-> TRUE, resume_name |-> resume_file.name,
                       jd_text |-> jd_text, fault |-> fault]
                 ELSE [accepted |-> FALSE]
  IN /\ Len(job_description) < MaxRows
     /\ \E h \in {IF accepted
                  THEN EvaluateHandler(db, uploads, resume_file, jd_text, fault)
                  ELSE [exc |-> "none", job_description |-> job_description,
                        evaluations |-> evaluations, uploads |-> uploads]} :
          /\ job_description' = h.job_description
          /\ evaluations' = h.evaluations
          /\ uploads' = h.uploads
          /\ page' = Rendered(request, h)
     /\ UNCHANGED <<embedder, args, ret>>

-----------------------------------------------------------------------------
(* Inputs *)

\* what the model may answer for the cosine of two different texts
SemValues == {0 - SemScale, 0 - 2, 0, 49998, 50000, SemScale}

WordPool == { <<"p","y","t","h","o","n">>, <<"h","t","m","l">>, <<"d","o","c","k","e","r">> }

\* the texts of at most n words of the pool, joined by single spaces
PoolTexts(n) ==
  {Join(<<" ">>, ws) : ws \in UNION {[1..k -> WordPool] : k \in 0..n}}

AllSkillsText == Join(<<" ">>, SKILLS_LIST)

ResumeTexts ==
  PoolTexts(MaxWords) \cup { <<"e","x","p","e","r","i","e","n","c","e","d"," ","i","n"," ","p","y","t","h","o","n"," ","d","e","v","e","l","o","p","m","e","n","t">> }

JdTexts ==
  PoolTexts(MaxWords)
    \cup { <<"l","o","o","k","i","n","g"," ","f","o","r"," ","p","y","t","h","o","n"," ","a","n","d"," ","d","o","c","k","e","r"," ","s","k","i","l","l","s">>, AllSkillsText,
           <<" ">>, <<"P","y","t","h","o","n","\n"," "," ","d","o","c","k","e","r">> }

\* the jd_emb a caller may pass: nothing, the encoded job description, or the
\* encoded job description inside a list
JdEmbs(jd_text) ==
  {None, encode(<<jd_text>>), PyList(<<encode(<<jd_text>>)>>)}

Segments ==
  { <<"B","a","c","h","e","l","o","r"," ","o","f"," ","S","c","i","e","n","c","e","\n">>, <<"w","o","r","k","e","d"," ","o","n"," ","a","\t","p","r","o","j","e","c","t">>,
    <<"b","u","i","l","t"," ","a","n","d"," ","d","e","v","e","l","o","p","e","d"," ","t","o","o","l","s">>, <<"P","y","t","h","o","n"," "," ","a","n","d"," ","s","q","l">> }

Documents ==
  {[format |-> f, parts |-> ps] :
     f \in {"pdf", "docx"},
     ps \in UNION {[1..k -> Segments] : k \in 0..MaxSegments}}

FilePaths ==
  { UploadPath(<<"c","v",".","p","d","f">>), UploadPath(<<"C","V",".","P","D","F">>), UploadPath(<<"c","v",".","d","o","c","x">>),
    UploadPath(<<"c","v",".","t","x","t">>) }

NoCall == [exc |-> "not called"]
NoPage == [request |-> [accepted |-> FALSE], exc |-> "none", rows |-> <<>>]

PdfDocument == [format |-> "pdf", parts |-> << <<"B","u","i","l","t"," ","i","n","\n","P","y","t","h","o","n">> >>]
DocxDocument == [format |-> "docx", parts |-> << <<"w","o","r","k","e","d">>, <<"o","n"," "," ","s","q","l">> >>]

\* what st.file_uploader may hold: nothing, or a file named *.pdf or *.docx;
\* the bytes of the last one are not what its name says
UploadedFiles ==
  { [kind |-> "UploadedFile", name |-> <<"c","v",".","p","d","f">>, doc |-> PdfDocument],
    [kind |-> "UploadedFile", name |-> <<"c","v",".","d","o","c","x">>, doc |-> DocxDocument],
    [kind |-> "UploadedFile", name |-> <<"c","v",".","p","d","f">>, doc |-> DocxDocument] }

\* what st.text_area may hold
TextAreaTexts == { <<>>, <<"p","y","t","h","o","n"," ","d","o","c","k","e","r">>, <<" ">> }

\* the models the application may have loaded
AppEmbedders == {0, 50000}

Faults == {"none", "embedding", "jd_insert", "eval_insert"}

-----------------------------------------------------------------------------
(* Direct calls of evaluate_resume *)

InitEval ==
  /\ job_description = <<>>
  /\ evaluations = <<>>
  /\ uploads = <<>>
  /\ page = NoPage
  /\ embedder \in SemValues
  /\ \E resume_text \in ResumeTexts, jd_text \in JdTexts :
       \E jd_emb \in JdEmbs(jd_text) :
         args = [fn |-> "evaluate_resume", resume_text |-> resume_text,
                 jd_text |-> jd_text, jd_emb |-> jd_emb]
  /\ ret = NoCall

CallEvaluate ==
  /\ ret = NoCall
  /\ ret' = evaluate_resume(args.resume_text, args.jd_text, args.jd_emb,
                            DefaultWeight, DefaultWeight)
  /\ UNCHANGED <<job_description, evaluations, uploads, page, embedder, args>>

NextEval == CallEvaluate

SpecEval == InitEval /\ [][NextEval]_vars

-----------------------------------------------------------------------------
(* Direct calls of parse_resume *)

InitParse ==
  /\ job_description = <<>>
  /\ evaluations = <<>>
  /\ \E file_path \in FilePaths, doc \in Documents :
       /\ uploads = [p \in {file_path} |-> doc]
       /\ args = [fn |-> "parse_resume", file_path |-> file_path]
  /\ page = NoPage
  /\ embedder \in {0}
  /\ ret = NoCall

CallParse ==
  /\ ret = NoCall
  /\ ret' = parse_resume(uploads, args.file_path)
  /\ UNCHANGED <<job_description, evaluations, uploads, page, embedder, args>>

NextParse == CallParse

SpecParse == InitParse /\ [][NextParse]_vars

-----------------------------------------------------------------------------
(* The application: script runs over the database file *)

\* init_db on a new vbm.db: both tables exist and are empty; nothing uploaded

Init ==
  /\ job_description = <<>>
  /\ evaluations = <<>>
  /\ uploads = <<>>
  /\ page = NoPage
  /\ embedder \in AppEmbedders
  /\ args = NoCall
  /\ ret = NoCall

Next ==
  \E button \in BOOLEAN, resume_file \in UploadedFiles \cup {None},
     jd_text \in TextAreaTexts, fault \in Faults :
    ScriptRun(button, resume_file, jd_text, fault)

Spec == Init /\ [][Next]_vars

-----------------------------------------------------------------------------
(* Properties of evaluate_resume, under SpecEval *)

\* the call of evaluate_resume returned
Returned == ret.exc = "none"

\* the rational x is m thousandths
IsMilli(x, m) == x.den % 1000 = 0 /\ x.num = m * (x.den \div 1000)

\* C1: the verdict of a returned score is High exactly when the score is at
\* least 75, Medium exactly when it is at least 50 and below 75, Low exactly
\* when it is below 50; 75.0 is High, 74.999 and 50.0 are Medium, 49.999 is Low.
C1_VerdictTiers ==
  Returned =>
    /\ ret.verdict = "High" <=> Ge(ret.score, 75)
    /\ ret.verdict = "Medium" <=> (Ge(ret.score, 50) /\ ~Ge(ret.score, 75))
    /\ ret.verdict = "Low" <=> ~Ge(ret.score, 50)
    /\ IsMilli(ret.score, 75000) => ret.verdict = "High"
    /\ IsMilli(ret.score, 74999) => ret.verdict = "Medium"
    /\ IsMilli(ret.score, 50000) => ret.verdict = "Medium"
    /\ IsMilli(ret.score, 49999) => ret.verdict = "Low"

\* a call returned the score 75.0 and the verdict High
C1_Witness ==
  Returned /\ IsMilli(ret.score, 75000) /\ ret.verdict = "High"

\* the position of a skill in SKILLS_LIST
SkillIndex(s) == CHOOSE k \in 1..Len(SKILLS_LIST) : SKILLS_LIST[k] = s

\* C5: missing_skills is, in vocabulary order, exactly the skills of SKILLS_LIST
\* that are a substring of jd_text and not a substring of resume_text; it is
\* empty when the two texts are equal, and for an empty resume_text it is the
\* skills present in jd_text.
C5_MissingSkills ==
  Returned =>
    LET m == ret.missing_skills
        present(text) == {k \in 1..Len(SKILLS_LIST) : Contains(SKILLS_LIST[k], text)}
    IN /\ \A i \in 1..Len(m) : \E k \in 1..Len(SKILLS_LIST) : SKILLS_LIST[k] = m[i]
       /\ \A i, j \in 1..Len(m) : i < j => SkillIndex(m[i]) < SkillIndex(m[j])
       /\ {SkillIndex(m[i]) : i \in 1..Len(m)}
            = present(args.jd_text) \ present(args.resume_text)
       /\ args.resume_text = args.jd_text => m = <<>>
       /\ args.resume_text = <<>>
            => {SkillIndex(m[i]) : i \in 1..Len(m)} = present(args.jd_text)

\* a call returned several missing skills while the resume holds a skill of the
\* job description only inside another word
C5_Witness ==
  /\ Returned
  /\ Len(ret.missing_skills) >= 2
  /\ \E k \in 1..Len(SKILLS_LIST) :
       /\ Contains(SKILLS_LIST[k], args.jd_text)
       /\ Contains(SKILLS_LIST[k], args.resume_text)
       /\ SKILLS_LIST[k] \notin ToSet(split(args.resume_text))

\* C6 as stated: the keyword score lies in [0,1], is 1 when the resume's words
\* include all the job description's words, and is 0 when no word is shared and
\* the job description has a word.
C6_AsStated ==
  Returned =>
    LET k == ret.keyword_score
        resume_words == ToSet(split(args.resume_text))
        jd_words == ToSet(split(args.jd_text))
    IN /\ 0 <= k.num /\ k.num <= k.den /\ k.den > 0
       /\ jd_words \subseteq resume_words => k.num = k.den
       /\ (resume_words \cap jd_words = {} /\ jd_words # {}) => k.num = 0

\* C6: the keyword score lies in [0,1]; it is 1 when the job description has a
\* word and the resume's words include all its words; it is 0 when no word is
\* shared, also when the job description has no word.
C6_KeywordScore ==
  Returned =>
    LET k == ret.keyword_score
        resume_words == ToSet(split(args.resume_text))
        jd_words == ToSet(split(args.jd_text))
    IN /\ 0 <= k.num /\ k.num <= k.den /\ k.den > 0
       /\ (jd_words \subseteq resume_words /\ jd_words # {}) => k.num = k.den
       /\ resume_words \cap jd_words = {} => k.num = 0
       /\ k.den = IF jd_words = {} THEN 1 ELSE Cardinality(jd_words)
       /\ k.num = Cardinality({w \in jd_words : w \in resume_words})

\* a call returned with a resume that has every word of the job description
\* and more
C6_Witness ==
  /\ Returned
  /\ ToSet(split(args.jd_text)) # {}
  /\ ToSet(split(args.jd_text)) \subseteq ToSet(split(args.resume_text))
  /\ ToSet(split(args.resume_text)) # ToSet(split(args.jd_text))
  /\ ret.keyword_score.num = ret.keyword_score.den

\* C7 as stated: a returned score lies in [0,100].
C7_AsStated == Returned => (Ge(ret.score, 0) /\ Le(ret.score, 100))

\* C7: with the default weights, a keyword score in [0,1] and a cosine in
\* [-1,1], a returned score lies in [-50,100]; it is below 0 exactly when the
\* keyword score plus the cosine is below 0.
C7_ScoreRange ==
  Returned =>
    /\ Ge(ret.score, 0 - 50) /\ Le(ret.score, 100)
    /\ 0 - SemScale <= ret.semantic_score /\ ret.semantic_score <= SemScale
    /\ Ge(ret.score, 0)
         <=> ret.keyword_score.num * SemScale
               + ret.semantic_score * ret.keyword_score.den >= 0

\* a call returned a score below 0
C7_Witness == Returned /\ ~Ge(ret.score, 0) /\ ret.keyword_score.num = 0

\* the positions where s occurs in text
Occurrences(s, text) == {i \in 1..Len(text) : StartsWithAt(text, s, i)}

\* C8: feedback holds " Missing: " if and only if missing_skills is not empty;
\* then it holds it once, and what follows it is the first min(10, n) missing
\* skills in vocabulary order, joined by ", ", and a full stop; missing_skills
\* itself is not truncated.
C8_FeedbackMissing ==
  Returned =>
    LET f == ret.feedback
        m == ret.missing_skills
        marker == <<" ","M","i","s","s","i","n","g",":"," ">>
        occ == Occurrences(marker, f)
        shown == SubSeq(m, 1, IF Len(m) < 10 THEN Len(m) ELSE 10)
    IN /\ m = <<>> <=> occ = {}
       /\ m # <<>> =>
            /\ Cardinality(occ) = 1
            /\ \A i \in occ :
                 SubSeq(f, i + Len(marker), Len(f)) = Join(<<","," ">>, shown) \o <<".">>
       /\ Len(shown) <= 10
       /\ Len(m) = Cardinality({k \in 1..Len(SKILLS_LIST) :
                                  /\ Contains(SKILLS_LIST[k], args.jd_text)
                                  /\ ~Contains(SKILLS_LIST[k], args.resume_text)})

\* a call returned more than ten missing skills
C8_Witness == Returned /\ Len(ret.missing_skills) > 10

-----------------------------------------------------------------------------
(* Properties of parse_resume, under SpecParse *)

\* the matched runs of a section: each from a trigger word to the end of the
\* line, joined by single spaces
SectionRuns(triggers, text) ==
  LET ms == ScanFrom(triggers, text, 1)
  IN Join(<<" ">>, IF ms = <<>> THEN <<>> ELSE [i \in 1..Len(ms) |-> ms[i].match])

\* a trigger word of the section occurs in text
TriggerOccurs(triggers, text) ==
  \E k \in 1..Len(triggers) : Contains(triggers[k], text)

\* C9: each of Education, Experience and Projects is the single-space join of
\* the matched runs, a run being the trigger word and the text after it up to
\* the end of the segment; the field is empty exactly when no trigger word of
\* its section occurs.
C9_SectionRuns ==
  Returned =>
    /\ ret.Education = SectionRuns(EDUCATION_TRIGGERS, ret.FullText)
    /\ ret.Experience = SectionRuns(EXPERIENCE_TRIGGERS, ret.FullText)
    /\ ret.Projects = SectionRuns(PROJECTS_TRIGGERS, ret.FullText)
    /\ ret.Education = <<>> <=> ~TriggerOccurs(EDUCATION_TRIGGERS, ret.FullText)
    /\ ret.Experience = <<>> <=> ~TriggerOccurs(EXPERIENCE_TRIGGERS, ret.FullText)
    /\ ret.Projects = <<>> <=> ~TriggerOccurs(PROJECTS_TRIGGERS, ret.FullText)

-----------------------------------------------------------------------------
(* Properties of the application, under Spec *)

\* the last run handled an accepted request, its document was readable and no
\* collaborator failed
Served(p) ==
  /\ p.request.accepted
  /\ p.request.fault = "none"
  /\ p.exc # "DocumentParseError"

\* table holds the rows of old and n more
Appended(old, table, n) ==
  /\ Len(table) = Len(old) + n
  /\ SubSeq(table, 1, Len(old)) = old

\* C2: an accepted request whose extraction and embedding succeed runs to its
\* end: one job_description row and one evaluations row are added, the results
\* are shown, and the score is the one evaluate_resume gives without jd_emb.
C2_RunsToCompletion ==
  [][Served(page') =>
       /\ page'.exc = "none"
       /\ Appended(job_description, job_description', 1)
       /\ Appended(evaluations, evaluations', 1)
       /\ page'.results.Resume = page'.request.resume_name
       /\ page'.results.Verdict \in {"High", "Medium", "Low"}
       /\ evaluations'[Len(evaluations')].score
            = evaluate_resume(
                parse_resume(uploads', UploadPath(page'.request.resume_name)).FullText,
                page'.request.jd_text, None, DefaultWeight, DefaultWeight).score
    ]_vars

\* C3: a request that fails at any step leaves both tables as they were.
C3_NothingRecordedOnFailure ==
  [][(page'.request.accepted /\ page'.exc # "none") =>
       (job_description' = job_description /\ evaluations' = evaluations)]_vars

C10_JdRowsCoverEvaluations ==
  [][/\ Len(job_description') >= Len(evaluations')
     /\ \E n \in {0, 1} : Appended(job_description, job_description', n)
     /\ \E n \in {0, 1} : Appended(evaluations, evaluations', n)
     /\ Len(evaluations') > Len(evaluations)
          => Len(job_description') > Len(job_description)
    ]_vars

\* a request has added a job_description row and no evaluations row
C10_Witness ==
  /\ page.request.accepted
  /\ Len(job_description) > Len(evaluations)
  /\ job_description[Len(job_description)].jd_text = page.request.jd_text

====
